---- MODULE Spec2Model ----
(***************************************************************************)
(* Webhook-driven product synchroniser (Jad-Assaf/ProductCreationWebhook). *)
(*                                                                         *)
(* Two handler variants are modelled:                                      *)
(*   "api"  : src/api/webhook.py  (HMAC check, validation, error mapping)  *)
(*   "root" : src/webhook.py      (no signature check, errors only printed)*)
(* The target store is the environment: it holds the catalog, answers the  *)
(* listing GET and applies the create POST / update PUT.                   *)
(***************************************************************************)
EXTENDS Integers, Sequences, FiniteSets, TLC

\* variant, catalog, req: the handler variant, the store's records, the requests.
\* proc: the process, with the environment it was started in.
\* applied: the last application of one of the handler's pure functions.
VARIABLES variant, catalog, req, proc, applied

vars == <<variant, catalog, req, proc, applied>>

(***************************************************************************)
(* Bounds of the model.                                                    *)
(***************************************************************************)
MaxReqs == 2

\* The longest listing get_existing_product_id_by_sku is applied to.
MaxListing == 2

\* The most variants of a product get_sku_from_product is applied to.
MaxVariants == 2

Reqs == 1..MaxReqs

\* The identifiers the store gives its records (opaque to the handler).
Ids == {0, 1}

(***************************************************************************)
(* JSON values as Python sees them after parsing.                          *)
(***************************************************************************)
JNull == [k |-> "null"]
JNum(n) == [k |-> "num", n |-> n]
JStr(s) == [k |-> "str", s |-> s]
JList(items) == [k |-> "list", items |-> items]
JObj(fields) == [k |-> "obj", fields |-> fields]

\* Python truthiness: None, 0, "", [] and {} are falsy.
Truthy(v) ==
    CASE v.k = "null" -> FALSE
      [] v.k = "num"  -> v.n # 0
      [] v.k = "str"  -> v.s # ""
      [] v.k = "list" -> v.items # <<>>
      [] v.k = "obj"  -> DOMAIN v.fields # {}

\* Results of Python expressions that may raise.
Return(v) == [exc |-> "", val |-> v]
Raise(e) == [exc |-> e, val |-> JNull]

\* dict.get(key, default); any other type has no attribute 'get'.
PyGet(v, key, default) ==
    IF v.k # "obj" THEN Raise("AttributeError")
    ELSE IF key \in DOMAIN v.fields THEN Return(v.fields[key])
    ELSE Return(default)

\* `key in v`: dict membership, list membership; a number is not iterable.
\* (String bodies are not among the modelled inputs.)
PyIn(key, v) ==
    CASE v.k = "obj"  -> Return(key \in DOMAIN v.fields)
      [] v.k = "list" -> Return(\E i \in 1..Len(v.items) : v.items[i] = JStr(key))
      [] OTHER        -> Raise("TypeError")

(***************************************************************************)
(* Configuration (module globals, read-only after start-up).               *)
(***************************************************************************)
\* os.getenv gives None for a variable that is not set.
EnvUnset == "<unset>"

\* The values a variable of the environment may have at start-up.
EnvValues(value) == { EnvUnset, "", value }

SHOPIFY_ACCESS_TOKEN == proc.token
STORE_URL == proc.url
SHOPIFY_WEBHOOK_SECRET == proc.secret

\* `not X`: None and "" are falsy.
Missing(x) == x \in { EnvUnset, "" }

\* The secret the source platform signs with.
SharedSecret == "shared-secret"

Process(state, token, url, secret) ==
    [state |-> state, token |-> token, url |-> url, secret |-> secret]

\* The end of the module's top-level code: src/api/webhook.py raises
\* ValueError when a variable is missing; src/webhook.py checks nothing
\* (and never reads SHOPIFY_WEBHOOK_SECRET).
ModuleStart(v, token, url, secret) ==
    IF v = "api" /\ (Missing(token) \/ Missing(url) \/ Missing(secret))
    THEN "aborted" ELSE "running"

\* A secret the source platform does not share with the handler.
OtherSecret == "other-secret"

(***************************************************************************)
(* Header values and signatures.  A str is modelled by its text and by     *)
(* whether all its characters are ASCII; a missing header is None.         *)
(***************************************************************************)
NoHeader == [present |-> FALSE, ascii |-> TRUE, text |-> <<>>]
Str(text) == [present |-> TRUE, ascii |-> TRUE, text |-> text]
NonAsciiStr(text) == [present |-> TRUE, ascii |-> FALSE, text |-> text]

\* Mutant of HeaderTruthy: `if hmac_header is None`, which lets "" through.
HeaderTruthy_NoneOnly(h) == h.present

\* `not hmac_header`: None and "" are falsy.
HeaderTruthy(h) == h.present /\ h.text # <<>>

\* Mutant of ComputeSignature: a signature that does not cover the body.
ComputeSignature_KeyOnly(secret, data) == Str(<<"base64", "hmac-sha256", secret>>)

\* base64(HMAC-SHA256(secret, data)).decode(): the keyed digest is injective
\* in (secret, data), and its base64 text is ASCII.
ComputeSignature(secret, data) == Str(<<"base64", "hmac-sha256", secret, data>>)

\* hmac.compare_digest on two str: TypeError unless both are ASCII.
compare_digest(a, b) ==
    IF ~a.ascii \/ ~b.ascii THEN [exc |-> "TypeError", val |-> FALSE]
    ELSE [exc |-> "", val |-> a.text = b.text]

verify_webhook(data, hmac_header) ==
    compare_digest(ComputeSignature(SHOPIFY_WEBHOOK_SECRET, data), hmac_header)

(***************************************************************************)
(* Request bodies (raw bytes) and their parse.                             *)
(***************************************************************************)
SkuA == JObj([sku |-> JStr("A")])
SkuB == JObj([sku |-> JStr("B")])

InvalidBodies ==
    { "not json", "{}", "{\"title\":\"x\"}", "[\"id\"]", "5" }

NoKeyBodies ==
    { "{\"id\":1}", "{\"id\":2,\"variants\":[]}",
      "{\"id\":1,\"variants\":[{}]}", "{\"id\":1,\"variants\":[{\"sku\":\"\"}]}" }

KeyBodies ==
    { "{\"id\":1,\"variants\":[{\"sku\":\"A\"}]}",
      "{\"id\":2,\"variants\":[{\"sku\":\"B\"},{\"sku\":\"A\"}]}" }

RawBodies == InvalidBodies \cup NoKeyBodies \cup KeyBodies

\* request.get_json(): the parsed value, or werkzeug's BadRequest.
get_json(data) ==
    CASE data = "{}" -> Return(JObj(<<>>))
      [] data = "{\"title\":\"x\"}" -> Return(JObj([title |-> JStr("x")]))
      [] data = "[\"id\"]" -> Return(JList(<<JStr("id")>>))
      [] data = "5" -> Return(JNum(5))
      [] data = "{\"id\":1}" -> Return(JObj([id |-> JNum(1)]))
      [] data = "{\"id\":2,\"variants\":[]}" ->
            Return(JObj([id |-> JNum(2), variants |-> JList(<<>>)]))
      [] data = "{\"id\":1,\"variants\":[{}]}" ->
            Return(JObj([id |-> JNum(1), variants |-> JList(<<JObj(<<>>)>>)]))
      [] data = "{\"id\":1,\"variants\":[{\"sku\":\"\"}]}" ->
            Return(JObj([id |-> JNum(1),
                         variants |-> JList(<<JObj([sku |-> JStr("")])>>)]))
      [] data = "{\"id\":1,\"variants\":[{\"sku\":\"A\"}]}" ->
            Return(JObj([id |-> JNum(1), variants |-> JList(<<SkuA>>)]))
      [] data = "{\"id\":2,\"variants\":[{\"sku\":\"B\"},{\"sku\":\"A\"}]}" ->
            Return(JObj([id |-> JNum(2), variants |-> JList(<<SkuB, SkuA>>)]))
      [] OTHER -> Raise("BadRequest")

\* The signature headers a client may send with a body.  src/webhook.py never
\* reads the header.
Headers(v, data) ==
    IF v = "root" THEN { NoHeader } ELSE
    { NoHeader, Str(<<>>), NonAsciiStr(<<"\\xe9">>),
      ComputeSignature(SHOPIFY_WEBHOOK_SECRET, data),
      ComputeSignature(OtherSecret, data) }

(***************************************************************************)
(* get_sku_from_product: the first variant's sku, or None.                 *)
(***************************************************************************)
\* Mutant of get_sku_from_product: the last variant's sku.
get_sku_from_product_LastVariant(product) ==
    LET variants == PyGet(product, "variants", JList(<<>>)) IN
    IF variants.exc # "" THEN variants
    ELSE IF Truthy(variants.val)
         THEN PyGet(variants.val.items[Len(variants.val.items)], "sku", JNull)
         ELSE Return(JNull)

get_sku_from_product(product) ==
    LET variants == PyGet(product, "variants", JList(<<>>)) IN
    IF variants.exc # "" THEN variants
    ELSE IF Truthy(variants.val)
         THEN IF variants.val.k = "list"
              THEN PyGet(variants.val.items[1], "sku", JNull)
              ELSE Raise("AttributeError")
         ELSE Return(JNull)

(***************************************************************************)
(* The target store: its catalog and its answers.                          *)
(***************************************************************************)
Rec(id, variants) == [id |-> id, variants |-> variants]

\* The catalog before the first webhook: empty, or one record with sku "A".
InitCatalogs == {<<>>} \cup { <<Rec(i, JList(<<SkuA>>))>> : i \in Ids }

UsedIds(cat) == { cat[i].id : i \in 1..Len(cat) }

\* GET <base>/products.json?fields=id,variants
ListingBody(cat) ==
    JObj([products |->
            JList([i \in 1..Len(cat) |->
                     JObj([id |-> JNum(cat[i].id), variants |-> cat[i].variants])])])

\* An answer of the store, or the failure of the call itself
\* (requests.exceptions.RequestException).
Response(status, text) == [kind |-> "response", status |-> status, text |-> text]
RequestException == [kind |-> "exception", status |-> -1, text |-> "connection failed"]
NoAnswer == [kind |-> "none", status |-> -1, text |-> ""]

\* response.json() succeeds on these texts only.
JsonTexts == { "{\"products\":[...]}", "{\"product\":{...}}", "{\"errors\":\"invalid\"}" }

ListAnswers ==
    { Response(200, "{\"products\":[...]}"), Response(503, "Service Unavailable"),
      RequestException }

\* The store accepts a call with 200 or 201 and a JSON body, or with an empty
\* body (201 for a create, 200 for an update); it refuses with 422; or the
\* call itself fails.
DispatchAnswers(method) ==
    { Response(200, "{\"product\":{...}}"), Response(201, "{\"product\":{...}}"),
      Response(IF method = "POST" THEN 201 ELSE 200, ""),
      Response(422, "{\"errors\":\"invalid\"}"), RequestException }

\* What a call can end in, given the configuration it is built from: without
\* STORE_URL the URL has no scheme and requests raises MissingSchema (a
\* RequestException) before connecting; without the token the store refuses
\* the call.
Reachable(answers) ==
    IF Missing(STORE_URL) THEN { RequestException }
    ELSE IF Missing(SHOPIFY_ACCESS_TOKEN)
    THEN { Response(401, "{\"errors\":\"invalid\"}") }
    ELSE answers

StoreAccepted(ans) == ans.kind = "response" /\ ans.status \in {200, 201}

(***************************************************************************)
(* get_existing_product_id_by_sku: the scan of a listing.                  *)
(***************************************************************************)
VariantMatches(p, sku) ==
    LET variants == PyGet(p, "variants", JList(<<>>)).val IN
    \E j \in 1..Len(variants.items) :
        PyGet(variants.items[j], "sku", JNull).val = sku

RECURSIVE ScanProducts(_, _, _)
ScanProducts(products, i, sku) ==
    IF i > Len(products) THEN JNull
    ELSE IF VariantMatches(products[i], sku) THEN products[i].fields["id"]
    ELSE ScanProducts(products, i + 1, sku)

\* Mutant of FindExisting: the last matching record wins.
FindExisting_LastMatch(body, sku) ==
    LET products == PyGet(body, "products", JList(<<>>)).val.items
        hits == { i \in 1..Len(products) : VariantMatches(products[i], sku) }
    IN  IF hits = {} THEN JNull
        ELSE products[CHOOSE i \in hits : \A j \in hits : j <= i].fields["id"]

FindExisting(body, sku) ==
    ScanProducts(PyGet(body, "products", JList(<<>>)).val.items, 1, sku)

(***************************************************************************)
(* Requests and responses.                                                 *)
(***************************************************************************)
Msg(text, status, body) == [text |-> text, status |-> status, body |-> body]
Resp(code, status, message) == [code |-> code, status |-> status, message |-> message]
NoResp == Resp(0, "", Msg("", -1, ""))

\* jsonify({'status': 'success'}), 200
Success == Resp(200, "success", Msg("", -1, ""))
\* Flask's own answers: an exception that escapes the view, and werkzeug's
\* BadRequest from get_json.  Neither carries the JSON body of the contract.
Flask500 == Resp(500, "none", Msg("Internal Server Error", -1, ""))
Flask400 == Resp(400, "none", Msg("Bad Request", -1, ""))

Call(method, id, payload) == [method |-> method, id |-> id, payload |-> payload]

\* steps: the functions the request has called so far, in order.
\* quiet: no other request was in progress when this one arrived.
Idle ==
    [pc |-> "idle", header |-> NoHeader, body |-> "", quiet |-> TRUE,
     steps |-> <<>>, sku |-> JNull,
     listAns |-> NoAnswer, listing |-> JNull, existing |-> JNull,
     dispAns |-> NoAnswer, assigned |-> -1, calls |-> <<>>,
     resp |-> NoResp, outcome |-> ""]

Step(q, name) == [q EXCEPT !.steps = Append(@, name)]

Finish(q, outcome, resp) ==
    [q EXCEPT !.pc = "done", !.outcome = outcome, !.resp = resp]

\* An exception leaving create_or_update_product: src/api/webhook.py catches
\* it and answers 500 with str(e); src/webhook.py lets it escape the view.
Propagate(v, q, outcome, message) ==
    IF v = "api" THEN Finish(q, outcome, Resp(500, "failure", message))
    ELSE Finish(q, "unhandled", Flask500)

\* Mutant of NoSku: `if sku is None`, which takes "" for a key.
NoSku_NoneOnly(sku) == sku = JNull

\* `if not sku:` None and "" are no key.
NoSku(sku) == ~Truthy(sku)

\* get_sku_from_product with the caller's test: the key, or None for no key.
SkuOrSkip(product) ==
    LET sku == get_sku_from_product(product) IN
    IF sku.exc # "" THEN sku
    ELSE IF NoSku(sku.val) THEN Return(JNull)
    ELSE sku

\* create_or_update_product up to the listing call.
ExtractKey(v, q, product) ==
    LET sku == get_sku_from_product(product)
        q1 == Step(q, "get_sku_from_product")
    IN  IF sku.exc # "" THEN Propagate(v, q1, "error", Msg(sku.exc, -1, ""))
        ELSE IF NoSku(sku.val) THEN Finish(q1, "skipped", Success)
        ELSE [q1 EXCEPT !.pc = "haskey", !.sku = sku.val]

\* `if not json_data or 'id' not in json_data`
ValidatePayload(json_data) ==
    IF ~Truthy(json_data) THEN Return(FALSE) ELSE PyIn("id", json_data)

\* handle_webhook of src/api/webhook.py after the signature check.
ApiProcessVerified(q) ==
    LET json_data == get_json(q.body)
        q1 == Step(q, "get_json")
    IN  IF json_data.exc # "" THEN Finish(q1, "badRequest", Flask400)
        ELSE LET valid == ValidatePayload(json_data.val) IN
             IF valid.exc # "" THEN Finish(q1, "unhandled", Flask500)
             ELSE IF ~valid.val
             THEN Finish(q1, "invalidPayload",
                         Resp(400, "failure", Msg("Invalid product data", -1, "")))
             ELSE ExtractKey("api", q1, json_data.val)

\* handle_webhook of src/api/webhook.py up to the listing call.
ApiHandleWebhook(q) ==
    IF ~HeaderTruthy(q.header)
    THEN Finish(q, "missingSignature",
                Resp(400, "failure", Msg("Missing HMAC header", -1, "")))
    ELSE LET ok == verify_webhook(q.body, q.header)
             q1 == Step(q, "verify_webhook")
         IN  IF ok.exc # "" THEN Finish(q1, "unhandled", Flask500)
             ELSE IF ~ok.val
             THEN Finish(q1, "badSignature",
                         Resp(401, "failure",
                              Msg("Webhook verification failed", -1, "")))
             ELSE ApiProcessVerified(q1)

\* handle_webhook of src/webhook.py up to the listing call.
RootHandleWebhook(q) ==
    LET data == get_json(q.body)
        q1 == Step(q, "get_json")
    IN  IF data.exc # "" THEN Finish(q1, "badRequest", Flask400)
        ELSE LET hasId == PyIn("id", data.val) IN
             IF hasId.exc # "" THEN Finish(q1, "unhandled", Flask500)
             ELSE IF ~hasId.val THEN Finish(q1, "ignored", Success)
             ELSE ExtractKey("root", q1, data.val)

HandleWebhook(v, q) ==
    IF v = "api" THEN ApiHandleWebhook(q) ELSE RootHandleWebhook(q)

(***************************************************************************)
(* The listing call and its outcome.                                       *)
(***************************************************************************)
RaiseMsg(message) == [exc |-> "Exception", val |-> JNull, message |-> message]
ReturnId(v) == [exc |-> "", val |-> v, message |-> Msg("", -1, "")]

\* Mutant of get_existing_product_id_by_sku: any status but 200 is "no match".
get_existing_product_id_by_sku_Lenient(v, sku, ans, body) ==
    IF ans.kind = "exception"
    THEN RaiseMsg(Msg("Failed to fetch products", -1, ""))
    ELSE IF ans.status = 200 THEN ReturnId(FindExisting(body, sku))
    ELSE ReturnId(JNull)

\* src/api/webhook.py raises on a failed call and on any status but 200;
\* src/webhook.py lets the call's exception through and returns None on any
\* status but 200.
get_existing_product_id_by_sku(v, sku, ans, body) ==
    IF ans.kind = "exception"
    THEN RaiseMsg(Msg("Failed to fetch products", -1, ""))
    ELSE IF ans.status = 200 THEN ReturnId(FindExisting(body, sku))
    ELSE IF v = "api" THEN RaiseMsg(Msg("Error fetching products", ans.status, ""))
    ELSE ReturnId(JNull)

AfterListing(v, q, ans, body) ==
    LET q1 == [q EXCEPT !.listAns = ans,
                        !.listing = IF ans.kind = "response" /\ ans.status = 200
                                    THEN body ELSE JNull,
                        !.calls = Append(@, Call("GET", JNull, JNull))]
        found == get_existing_product_id_by_sku(v, q.sku, ans, body)
    IN  IF found.exc # "" THEN Propagate(v, q1, "upstreamFetch", found.message)
        ELSE [q1 EXCEPT !.pc = "resolved", !.existing = found.val]

(***************************************************************************)
(* The mutating call and its outcome.                                      *)
(***************************************************************************)
\* Mutant of DispatchCall: an upsert that always updates.
DispatchCall_AlwaysPut(existing, product) ==
    Call("PUT", existing, JObj([product |-> product]))

\* `if existing_product_id:` chooses PUT <base>/products/<id>.json, else
\* POST <base>/products.json; the body is {"product": product} in both.
DispatchCall(existing, product) ==
    IF Truthy(existing)
    THEN Call("PUT", existing, JObj([product |-> product]))
    ELSE Call("POST", JNull, JObj([product |-> product]))

ProductVariants(payload) ==
    PyGet(payload.fields["product"], "variants", JList(<<>>)).val

\* What the store does with an accepted call.
StoreApply(cat, call, newid) ==
    IF call.method = "POST"
    THEN Append(cat, Rec(newid, ProductVariants(call.payload)))
    ELSE [i \in 1..Len(cat) |->
            IF JNum(cat[i].id) = call.id
            THEN Rec(cat[i].id, ProductVariants(call.payload))
            ELSE cat[i]]

\* The ids the store may give a record it creates.
FreshIds(cat, call, ans) ==
    IF StoreAccepted(ans) /\ call.method = "POST" THEN Ids \ UsedIds(cat) ELSE {-1}

\* The store accepts an update only of a record it holds.
StoreCanAnswer(cat, call, ans) ==
    (StoreAccepted(ans) /\ call.method = "PUT")
        => \E i \in 1..Len(cat) : JNum(cat[i].id) = call.id

\* create_or_update_product after the mutating call.
AfterDispatch(v, q, call, ans, newid) ==
    LET q1 == [q EXCEPT !.dispAns = ans, !.assigned = newid,
                        !.calls = Append(@, call)]
        done == IF call.method = "PUT" THEN "updated" ELSE "created"
    IN  IF ans.kind = "exception"
        THEN Propagate(v, q1, "upstreamDispatch", Msg("HTTP request failed", -1, ""))
        ELSE IF ans.status \in {200, 201}
        THEN IF ans.text \in JsonTexts
             THEN Finish(q1, done, Success)
             ELSE Propagate(v, q1, "error", Msg("JSONDecodeError", -1, ""))
        ELSE IF v = "api"
        THEN Propagate(v, q1, "upstreamDispatch",
                       Msg("Error from target store", ans.status, ans.text))
        ELSE Finish(q1, "errorPrinted", Success)

(***************************************************************************)
(* A call the store never answers.                                         *)
(***************************************************************************)
\* requests.get, requests.put and requests.post are called without the
\* `timeout` argument, whose default is None: wait without limit.
timeout == "None"

\* The call the request is about to make.
PendingCall(q) ==
    IF q.pc = "haskey" THEN Call("GET", JNull, JNull)
    ELSE DispatchCall(q.existing, get_json(q.body).val)

\* With a timeout the call ends in requests.exceptions.Timeout, which is a
\* RequestException; with None the thread stays in the call.
AfterSilence(v, q, t) ==
    IF t = "None"
    THEN [q EXCEPT !.pc = "blocked", !.calls = Append(@, PendingCall(q))]
    ELSE IF q.pc = "haskey" THEN AfterListing(v, q, RequestException, JNull)
    ELSE AfterDispatch(v, q, PendingCall(q), RequestException, -1)

(***************************************************************************)
(* The state machine.                                                      *)
(***************************************************************************)
\* A function with its arguments, before and after it is applied.
Awaiting(fn, args) == [fn |-> fn, args |-> args, done |-> FALSE, result |-> Return(JNull)]
Applied(fn, args, result) == [fn |-> fn, args |-> args, done |-> TRUE, result |-> result]
NoCall == Awaiting("", <<>>)

\* A process that started with its three variables set.
Init ==
    /\ variant \in {"api", "root"}
    /\ catalog \in InitCatalogs
    /\ req = [r \in Reqs |-> Idle]
    /\ proc = Process("running", "shpat_token", "https://target.example", SharedSecret)
    /\ applied = NoCall

\* A request arrives and runs up to its first outbound call.
Handle(r) ==
    /\ proc.state = "running"
    /\ req[r].pc = "idle"
    /\ r > 1 => req[r - 1].pc # "idle"
    /\ \E data \in RawBodies :
         \E hmac_header \in Headers(variant, data) :
            req' = [req EXCEPT ![r] =
                      HandleWebhook(variant,
                          [Idle EXCEPT !.pc = "received",
                                       !.header = hmac_header,
                                       !.body = data,
                                       !.quiet = \A o \in Reqs :
                                                    req[o].pc \in {"idle", "done"}])]
    /\ UNCHANGED <<variant, catalog, proc, applied>>

\* The listing GET is answered.
Resolve(r) ==
    /\ req[r].pc = "haskey"
    /\ \E ans \in Reachable(ListAnswers) :
         req' = [req EXCEPT ![r] = AfterListing(variant, @, ans, ListingBody(catalog))]
    /\ UNCHANGED <<variant, catalog, proc, applied>>

\* The create POST or update PUT is answered.
Dispatch(r) ==
    /\ req[r].pc = "resolved"
    /\ LET call == DispatchCall(req[r].existing, get_json(req[r].body).val) IN
       \E ans \in Reachable(DispatchAnswers(call.method)) :
         /\ StoreCanAnswer(catalog, call, ans)
         /\ \E newid \in FreshIds(catalog, call, ans) :
              /\ catalog' = IF StoreAccepted(ans)
                            THEN StoreApply(catalog, call, newid) ELSE catalog
              /\ req' = [req EXCEPT ![r] = AfterDispatch(variant, @, call, ans, newid)]
    /\ UNCHANGED <<variant, proc, applied>>

\* The store never answers the request's pending call.
Hang(r) ==
    /\ req[r].pc \in {"haskey", "resolved"}
    /\ ~Missing(STORE_URL)
    /\ req' = [req EXCEPT ![r] = AfterSilence(variant, @, timeout)]
    /\ UNCHANGED <<variant, catalog, proc, applied>>

Next == \E r \in Reqs : Handle(r) \/ Resolve(r) \/ Dispatch(r) \/ Hang(r)

Spec == Init /\ [][Next]_vars

(***************************************************************************)
(* Start-up: the process is started in any environment.                    *)
(***************************************************************************)
StartInit ==
    /\ variant \in {"api", "root"}
    /\ catalog \in InitCatalogs
    /\ req = [r \in Reqs |-> Idle]
    /\ \E token \in EnvValues("shpat_token") :
       \E url \in EnvValues("https://target.example") :
       \E secret \in EnvValues(SharedSecret) :
         proc = Process("starting", token, url, secret)
    /\ applied = NoCall

\* The module's top-level code runs to its end, or raises.
Startup ==
    /\ proc.state = "starting"
    /\ proc' = [proc EXCEPT !.state =
                   ModuleStart(variant, SHOPIFY_ACCESS_TOKEN, STORE_URL,
                               SHOPIFY_WEBHOOK_SECRET)]
    /\ UNCHANGED <<variant, catalog, req, applied>>

StartNext == Startup \/ Next

StartSpec == StartInit /\ [][StartNext]_vars

(***************************************************************************)
(* The pure functions of the handler, applied to inputs of their own.      *)
(***************************************************************************)
Secrets == { SharedSecret, OtherSecret }

\* Header values a client can send: the signature of some body under some
\* secret, text that is not base64, text with a non-ASCII character.
SignatureHeaders ==
    { ComputeSignature(secret, data) : secret \in Secrets, data \in RawBodies }
        \cup { Str(<<"not base64!">>), NonAsciiStr(<<"\\xe9">>) }

VerifyInputs ==
    { Awaiting("verify_webhook", <<data, hmac_header>>) :
        data \in RawBodies, hmac_header \in SignatureHeaders }

\* Records of a listing (fields=id,variants): with no variants, with
\* variants that have no sku, with one or two skus.
ListedVariants ==
    { JList(<<>>), JList(<<JObj(<<>>)>>), JList(<<SkuA>>), JList(<<SkuB, SkuA>>) }

ListedRecords ==
    { JObj([id |-> JNum(i)]) : i \in Ids }
        \cup { JObj([id |-> JNum(i), variants |-> vs]) : i \in Ids, vs \in ListedVariants }

RECURSIVE SeqsUpTo(_, _)
SeqsUpTo(S, n) ==
    IF n = 0 THEN { <<>> }
    ELSE LET shorter == SeqsUpTo(S, n - 1) IN
         shorter \cup { Append(s, x) : s \in { t \in shorter : Len(t) = n - 1 }, x \in S }

Listings == { JObj([products |-> JList(ps)]) : ps \in SeqsUpTo(ListedRecords, MaxListing) }

Keys == { JStr("A"), JStr("B"), JStr("C") }

\* Variant records: sku absent, null, empty or a string.
VariantRecords ==
    { JObj(<<>>), JObj([sku |-> JNull]), JObj([sku |-> JStr("")]), SkuA, SkuB }

\* Product records: an id, and variants absent or a list of Variant records.
ProductRecords ==
    { JObj([id |-> JNum(1)]) }
        \cup { JObj([id |-> JNum(1), variants |-> JList(vs)]) :
                 vs \in SeqsUpTo(VariantRecords, MaxVariants) }

ExtractInputs == { Awaiting("get_sku_from_product", <<product>>) : product \in ProductRecords }

ScanInputs ==
    { Awaiting("get_existing_product_id_by_sku", <<body, sku>>) :
        body \in Listings, sku \in Keys }

\* A running src/api/webhook.py process, and a function about to be applied.
FnInit ==
    /\ variant = "api"
    /\ catalog = <<>>
    /\ req = [r \in Reqs |-> Idle]
    /\ \E secret \in Secrets :
         proc = Process("running", "shpat_token", "https://target.example", secret)
    /\ applied \in VerifyInputs \cup ExtractInputs \cup ScanInputs

ApplyVerify ==
    /\ applied.fn = "verify_webhook" /\ ~applied.done
    /\ applied' = Applied(applied.fn, applied.args,
                          verify_webhook(applied.args[1], applied.args[2]))
    /\ UNCHANGED <<variant, catalog, req, proc>>

\* get_existing_product_id_by_sku on a listing answered 200.
ApplyScan ==
    /\ applied.fn = "get_existing_product_id_by_sku" /\ ~applied.done
    /\ applied' = Applied(applied.fn, applied.args,
                          get_existing_product_id_by_sku(
                              variant, applied.args[2],
                              Response(200, "{\"products\":[...]}"), applied.args[1]))
    /\ UNCHANGED <<variant, catalog, req, proc>>

\* get_sku_from_product and `if not sku` of create_or_update_product.
ApplyExtract ==
    /\ applied.fn = "get_sku_from_product" /\ ~applied.done
    /\ applied' = Applied(applied.fn, applied.args, SkuOrSkip(applied.args[1]))
    /\ UNCHANGED <<variant, catalog, req, proc>>

FnNext == ApplyVerify \/ ApplyExtract \/ ApplyScan

FnSpec == FnInit /\ [][FnNext]_vars

(***************************************************************************)
(* Vocabulary of the properties.                                           *)
(***************************************************************************)
Received(r) == req[r].pc # "idle"
Done(r) == req[r].pc = "done"
IsApi == variant = "api"

Methods(q) == { q.calls[i].method : i \in 1..Len(q.calls) }
NoOutboundCall(q) == q.calls = <<>>
NoMutatingCall(q) == Methods(q) \cap {"POST", "PUT"} = {}

Product(q) == get_json(q.body).val
ExpectedSignature(q) == ComputeSignature(SHOPIFY_WEBHOOK_SECRET, q.body)
SignaturePresent(q) == q.header.present /\ q.header.text # <<>>
SignatureValid(q) == q.header = ExpectedSignature(q)

\* The listing call failed: the call itself, or a status outside 2xx.
ListingFailed(q) ==
    \/ q.listAns.kind = "exception"
    \/ q.listAns.kind = "response" /\ q.listAns.status \notin 200..299

\* The mutating call was made; the listing was answered 200.
Dispatched(q) == q.dispAns.kind # "none"
ListingSucceeded(q) == q.listAns.kind = "response" /\ q.listAns.status = 200

\* The store accepted the call and answered with a JSON body.
AnsweredWell(ans) == StoreAccepted(ans) /\ ans.text \in JsonTexts

\* The mutating call failed: the call itself, or a status outside {200, 201}.
DispatchFailed(q) ==
    \/ q.dispAns.kind = "exception"
    \/ q.dispAns.kind = "response" /\ q.dispAns.status \notin {200, 201}

\* A parsed body that is a Product record: a JSON object with an `id`.
IsProduct(j) == j.exc = "" /\ j.val.k = "obj" /\ "id" \in DOMAIN j.val.fields

\* The product has no usable key.
FirstVariantLacksSku(variants) ==
    /\ variants.k = "list" /\ variants.items # <<>>
    /\ variants.items[1].k = "obj"
    /\ \/ "sku" \notin DOMAIN variants.items[1].fields
       \/ variants.items[1].fields["sku"] \in { JStr(""), JNull }

HasNoKey(product) ==
    \/ "variants" \notin DOMAIN product.fields
    \/ product.fields["variants"] = JList(<<>>)
    \/ FirstVariantLacksSku(product.fields["variants"])

\* The terminal state of the handler's state machine a request belongs to,
\* read off its input and the store's answers, and the status of each.
TerminalState(q) ==
    IF ~SignaturePresent(q) THEN "Rejected(missingSignature)"
    ELSE IF ~SignatureValid(q) THEN "Rejected(badSignature)"
    ELSE IF ~IsProduct(get_json(q.body)) THEN "Rejected(invalidPayload)"
    ELSE IF HasNoKey(Product(q)) THEN "Accepted(skipped)"
    ELSE IF ~ListingSucceeded(q) THEN "Failed(upstreamFetch)"
    ELSE IF ~StoreAccepted(q.dispAns) THEN "Failed(upstreamDispatch)"
    ELSE IF q.calls[2].method = "PUT" THEN "Accepted(updated)"
    ELSE "Accepted(created)"

\* The records of a catalog that have some variant with the sku.
RecordsWithSku(cat, sku) ==
    { i \in 1..Len(cat) :
        \E j \in 1..Len(cat[i].variants.items) :
            cat[i].variants.items[j] = JObj([sku |-> sku]) }

\* The request's listing was answered 200 and showed no record with its sku.
SawNoRecord(q) ==
    /\ ListingSucceeded(q)
    /\ \A i \in 1..Len(q.listing.fields["products"].items) :
         ~VariantMatches(q.listing.fields["products"].items[i], q.sku)

\* The request is inside an outbound call that has no timeout and that the
\* store never answers: no step of the request is enabled any more.
WaitsForever(q) == q.pc = "blocked"

\* A variable of the configuration was unset or empty at start-up.
ConfigMissing ==
    Missing(SHOPIFY_ACCESS_TOKEN) \/ Missing(STORE_URL) \/ Missing(SHOPIFY_WEBHOOK_SECRET)

\* The functions handle_webhook of src/api/webhook.py calls before the first
\* outbound call, in order, and the prefixes of a sequence.
StepOrder == << "verify_webhook", "get_json", "get_sku_from_product" >>
IsPrefix(s, t) == Len(s) <= Len(t) /\ s = SubSeq(t, 1, Len(s))

\* A listed record has some variant whose sku is the key.
HasVariantWithSku(p, sku) ==
    /\ "variants" \in DOMAIN p.fields
    /\ \E j \in 1..Len(p.fields["variants"].items) :
         LET variant_j == p.fields["variants"].items[j] IN
         "sku" \in DOMAIN variant_j.fields /\ variant_j.fields["sku"] = sku

\* The positions of the records of a listing that have the key.
Matching(body, sku) ==
    { i \in 1..Len(body.fields["products"].items) :
        HasVariantWithSku(body.fields["products"].items[i], sku) }

Least(S) == CHOOSE i \in S : \A j \in S : i <= j

StatusOf(terminal) ==
    CASE terminal \in {"Rejected(missingSignature)", "Rejected(invalidPayload)"} -> 400
      [] terminal = "Rejected(badSignature)" -> 401
      [] terminal \in {"Failed(upstreamFetch)", "Failed(upstreamDispatch)"} -> 500
      [] OTHER -> 200

(***************************************************************************)
(* C1.  src/api/webhook.py: a request whose signature header is present    *)
(* but differs from base64(HMAC-SHA256(secret, raw body)) ends with HTTP   *)
(* 401 and status "failure", and issues no outbound call.                  *)
(* Fails: a header with a non-ASCII character makes compare_digest raise.  *)
(***************************************************************************)
C1_WrongSignatureIs401 ==
    \A r \in Reqs :
        (IsApi /\ Received(r) /\ SignaturePresent(req[r]) /\ ~SignatureValid(req[r]))
            => /\ Done(r)
               /\ req[r].resp.code = 401
               /\ req[r].resp.status = "failure"
               /\ NoOutboundCall(req[r])

(***************************************************************************)
(* C2.  src/api/webhook.py: a request whose signature header is absent or  *)
(* empty ends with HTTP 400 and status "failure" before verify_webhook is  *)
(* called, and issues no outbound call.                                    *)
(***************************************************************************)
C2_MissingSignatureIs400 ==
    \A r \in Reqs :
        (IsApi /\ Received(r) /\ ~SignaturePresent(req[r]))
            => /\ Done(r)
               /\ req[r].resp.code = 400
               /\ req[r].resp.status = "failure"
               /\ req[r].steps = <<>>
               /\ NoOutboundCall(req[r])

\* Both cases happened: one request without the header, one with an empty one.
C2_Witness ==
    /\ IsApi
    /\ \E r \in Reqs : Done(r) /\ ~req[r].header.present /\ req[r].resp.code = 400
    /\ \E r \in Reqs : Done(r) /\ req[r].header = Str(<<>>) /\ req[r].resp.code = 400

(***************************************************************************)
(* C3.  In both handler variants a failed listing call (a status outside   *)
(* 2xx, or the call itself failing) aborts the upsert: the request ends    *)
(* with HTTP 500 and issues neither a create nor an update.                *)
(* Fails: src/webhook.py prints the error, returns None and creates.       *)
(***************************************************************************)
C3_FailedListingAborts ==
    \A r \in Reqs :
        ListingFailed(req[r])
            => /\ Done(r)
               /\ req[r].resp.code = 500
               /\ NoMutatingCall(req[r])

(***************************************************************************)
(* C4.  After a successful listing, whatever identifier the resolver       *)
(* returned for a matching record, the one mutating call is                *)
(* PUT <base>/products/<id>.json; when it returned absent, the one         *)
(* mutating call is POST <base>/products.json; the body is                 *)
(* {"product": P} with P the inbound product.                              *)
(* Fails: `if existing_product_id:` takes the identifier 0 for absent.     *)
(***************************************************************************)
C4_UpdateIffResolved ==
    \A r \in Reqs :
        (Dispatched(req[r]) /\ ListingSucceeded(req[r]))
            => LET q == req[r]
                   payload == JObj([product |-> Product(q)])
               IN  q.calls = << Call("GET", JNull, JNull),
                                IF q.existing # JNull
                                THEN Call("PUT", q.existing, payload)
                                ELSE Call("POST", JNull, payload) >>

(***************************************************************************)
(* C5.  Idempotence: the same validly signed payload delivered twice in    *)
(* sequence, the first delivery ending in Created and nothing else         *)
(* changing the catalog: the second delivery issues no create, and (its    *)
(* calls being answered) ends in Updated with a PUT to the record the      *)
(* first delivery created.                                                 *)
(* Fails when the store gives the created record the identifier 0 (C4).    *)
(***************************************************************************)
C5_SecondDeliveryUpdates ==
    \A r \in Reqs :
        (/\ r + 1 \in Reqs
         /\ IsApi
         /\ req[r].outcome = "created"
         /\ Received(r + 1)
         /\ req[r + 1].quiet
         /\ req[r + 1].body = req[r].body
         /\ SignatureValid(req[r]) /\ SignatureValid(req[r + 1])
         /\ \A o \in Reqs \ {r, r + 1} : NoMutatingCall(req[o])
         /\ ListingSucceeded(req[r + 1]))
            => /\ "POST" \notin Methods(req[r + 1])
               /\ (Done(r + 1) /\ AnsweredWell(req[r + 1].dispAns))
                    => /\ req[r + 1].outcome = "updated"
                       /\ req[r + 1].calls[2].method = "PUT"
                       /\ req[r + 1].calls[2].id = JNum(req[r].assigned)

(***************************************************************************)
(* C6.  In both handler variants a create or update call that is answered  *)
(* with a status outside {200, 201}, or that fails, ends the request with  *)
(* HTTP 500, status "failure" and a message carrying the upstream status   *)
(* and body; never with HTTP 200 "success".                                *)
(* Fails: src/webhook.py prints the error and answers 200 "success".       *)
(***************************************************************************)
C6_FailedDispatchIs500 ==
    \A r \in Reqs :
        DispatchFailed(req[r])
            => /\ Done(r)
               /\ req[r].resp.code = 500
               /\ req[r].resp.status = "failure"
               /\ req[r].dispAns.kind = "response"
                    => /\ req[r].resp.message.status = req[r].dispAns.status
                       /\ req[r].resp.message.body = req[r].dispAns.text

(***************************************************************************)
(* C7.  src/api/webhook.py: a create or update call answered with 200 or   *)
(* 201 ends the request with HTTP 200 and status "success", whatever the   *)
(* body of the answer.                                                     *)
(* Fails: response.json() in the log call raises on a body that is not     *)
(* JSON, and the request ends with HTTP 500.                               *)
(***************************************************************************)
C7_AcceptedDispatchIs200 ==
    \A r \in Reqs :
        (IsApi /\ StoreAccepted(req[r].dispAns))
            => /\ Done(r)
               /\ req[r].resp.code = 200
               /\ req[r].resp.status = "success"

(***************************************************************************)
(* C8.  src/api/webhook.py: a verified request whose product has an `id`   *)
(* but no usable key (variants absent or empty, first variant's sku absent *)
(* or "") ends with HTTP 200 and status "success" and issues no outbound   *)
(* call, not even the listing.                                             *)
(***************************************************************************)
C8_NoKeyIsSkipped ==
    \A r \in Reqs :
        (/\ IsApi /\ Received(r) /\ SignatureValid(req[r])
         /\ IsProduct(get_json(req[r].body)) /\ HasNoKey(Product(req[r])))
            => /\ Done(r)
               /\ req[r].resp.code = 200
               /\ req[r].resp.status = "success"
               /\ NoOutboundCall(req[r])

\* A verified product whose first variant has the sku "" was skipped, and
\* another with no variants at all.
C8_Witness ==
    /\ IsApi
    /\ \E r \in Reqs :
         /\ Done(r) /\ SignatureValid(req[r]) /\ IsProduct(get_json(req[r].body))
         /\ "variants" \in DOMAIN Product(req[r]).fields
         /\ FirstVariantLacksSku(Product(req[r]).fields["variants"])
         /\ "sku" \in DOMAIN Product(req[r]).fields["variants"].items[1].fields
         /\ req[r].resp.code = 200
    /\ \E r \in Reqs :
         /\ Done(r) /\ SignatureValid(req[r]) /\ IsProduct(get_json(req[r].body))
         /\ "variants" \notin DOMAIN Product(req[r]).fields
         /\ req[r].resp.code = 200

(***************************************************************************)
(* C9.  src/api/webhook.py: a verified request whose body is unparseable,  *)
(* is not a JSON object, or is an object without `id` ends with HTTP 400   *)
(* and status "failure" and issues no outbound call.                       *)
(* Fails: `'id' in json_data` is true of the list ["id"] and raises on a   *)
(* number; both end with HTTP 500.                                         *)
(***************************************************************************)
C9_InvalidPayloadIs400 ==
    \A r \in Reqs :
        (/\ IsApi /\ Received(r) /\ SignatureValid(req[r])
         /\ ~IsProduct(get_json(req[r].body)))
            => /\ Done(r)
               /\ req[r].resp.code = 400
               /\ req[r].resp.status = "failure"
               /\ NoOutboundCall(req[r])

(***************************************************************************)
(* C10.  src/api/webhook.py: every request ends in exactly one terminal    *)
(* state of the handler's state machine, which alone fixes the response:   *)
(* 400 for a missing signature or an invalid payload, 401 for a bad        *)
(* signature, 500 for a failed listing or dispatch, 200 for created,       *)
(* updated and skipped; status is "success" exactly with 200.              *)
(* Fails with C1, C7 and C9: requests that end outside these states.       *)
(***************************************************************************)
C10_TerminalStateFixesResponse ==
    \A r \in Reqs :
        (IsApi /\ Done(r))
            => /\ req[r].resp.code = StatusOf(TerminalState(req[r]))
               /\ req[r].resp.status \in {"success", "failure"}
               /\ req[r].resp.status = "success" <=> req[r].resp.code = 200

(***************************************************************************)
(* C11.  Nothing serialises the listing and the mutating call per SKU:     *)
(* two requests with the same first-variant SKU whose listings both show   *)
(* no record with that SKU each issue a create, never an update; when      *)
(* both creates are accepted both requests end in Created and the catalog  *)
(* holds two records with that SKU.                                        *)
(***************************************************************************)
C11_RacingListingsBothCreate ==
    \A r1 \in Reqs : \A r2 \in Reqs \ {r1} :
        (/\ SawNoRecord(req[r1]) /\ SawNoRecord(req[r2])
         /\ req[r1].sku = req[r2].sku)
            => /\ \A r \in {r1, r2} :
                    Dispatched(req[r]) => req[r].calls[2].method = "POST"
               /\ (/\ AnsweredWell(req[r1].dispAns) /\ AnsweredWell(req[r2].dispAns)
                   /\ \A o \in Reqs \ {r1, r2} : NoMutatingCall(req[o]))
                    => /\ req[r1].outcome = "created" /\ req[r2].outcome = "created"
                       /\ req[r1].assigned # req[r2].assigned
                       /\ Cardinality(RecordsWithSku(catalog, req[r1].sku)) >= 2

\* Two verified requests for sku "A" arrived at an empty catalog, both read
\* the listing before either wrote, and both ended in Created: the catalog
\* now holds two records with sku "A".
C11_Witness ==
    /\ IsApi
    /\ \E r1 \in Reqs : \E r2 \in Reqs \ {r1} :
         /\ req[r1].sku = JStr("A") /\ req[r2].sku = JStr("A")
         /\ req[r1].listing = ListingBody(<<>>) /\ req[r2].listing = ListingBody(<<>>)
         /\ ~req[r1].quiet \/ ~req[r2].quiet
         /\ req[r1].outcome = "created" /\ req[r2].outcome = "created"
         /\ req[r1].resp = Success /\ req[r2].resp = Success
    /\ Cardinality(RecordsWithSku(catalog, JStr("A"))) = 2

(***************************************************************************)
(* C12.  Every outbound call (the listing GET, the create POST, the update *)
(* PUT) has a bounded timeout: no request is ever left waiting without     *)
(* limit on a call the store does not answer, a state from which it can    *)
(* reach no terminal state and send no response.                           *)
(* Fails: the three calls pass no `timeout`, so requests waits forever.    *)
(***************************************************************************)
C12_NoCallWaitsForever ==
    \A r \in Reqs : IsApi => ~WaitsForever(req[r])

(***************************************************************************)
(* C13.  verify_webhook, for every secret and raw body: it accepts the     *)
(* header base64(HMAC-SHA256(secret, body)) computed over that same body   *)
(* and rejects the one computed over any different body (the keyed digest  *)
(* being injective in the body).                                           *)
(***************************************************************************)
C13_VerifyAcceptsExactlyOwnBody ==
    \A signed \in RawBodies :
        (/\ applied.fn = "verify_webhook" /\ applied.done
         /\ applied.args[2] = ComputeSignature(SHOPIFY_WEBHOOK_SECRET, signed))
            => /\ applied.result.exc = ""
               /\ applied.result.val = (signed = applied.args[1])

\* Under the secret "other-secret", a signature computed over another body
\* was presented and rejected.
C13_Witness ==
    /\ SHOPIFY_WEBHOOK_SECRET = OtherSecret
    /\ applied.fn = "verify_webhook" /\ applied.done
    /\ \E signed \in RawBodies \ {applied.args[1]} :
         applied.args[2] = ComputeSignature(SHOPIFY_WEBHOOK_SECRET, signed)
    /\ applied.result = [exc |-> "", val |-> FALSE]

(***************************************************************************)
(* C14.  verify_webhook is total: for every raw body and every non-empty   *)
(* header value (signatures of other bodies or secrets, text that is not   *)
(* base64, text with non-ASCII characters) that differs from the expected  *)
(* signature, it returns False and raises nothing.                         *)
(* Fails: hmac.compare_digest raises TypeError on a str with a non-ASCII   *)
(* character.                                                              *)
(***************************************************************************)
C14_VerifyNeverRaises ==
    (/\ applied.fn = "verify_webhook" /\ applied.done
     /\ HeaderTruthy(applied.args[2])
     /\ applied.args[2] # ComputeSignature(SHOPIFY_WEBHOOK_SECRET, applied.args[1]))
        => applied.result = [exc |-> "", val |-> FALSE]

(***************************************************************************)
(* C15.  Start-up fails fast, in both handler variants: when the signing   *)
(* secret, the target base URL or the access token is unset or empty, the  *)
(* process never runs and no webhook request is ever handled by it.        *)
(* Fails: src/webhook.py checks nothing at start-up.                       *)
(***************************************************************************)
C15_StartupFailsFast ==
    ConfigMissing
        => /\ proc.state # "running"
           /\ \A r \in Reqs : ~Received(r)

(***************************************************************************)
(* C16.  src/api/webhook.py: within one request the steps run in the order *)
(* verify, validate, extract, resolve, dispatch, none of them twice: the   *)
(* request issues at most one listing GET and then at most one mutating    *)
(* call; any outbound call comes after all three local steps; a mutating   *)
(* call is issued only by a request whose signature is valid, whose body   *)
(* is a product, whose key is the non-empty sku of its first variant and   *)
(* whose listing was answered 200.                                         *)
(***************************************************************************)
C16_StepsInOrderNoRetry ==
    \A r \in Reqs :
        IsApi =>
            LET q == req[r] IN
            /\ IsPrefix(q.steps, StepOrder)
            /\ Len(q.calls) <= 2
            /\ q.calls # <<>> => q.steps = StepOrder /\ q.calls[1].method = "GET"
            /\ Len(q.calls) = 2
                 => /\ q.calls[2].method \in {"POST", "PUT"}
                    /\ SignatureValid(q)
                    /\ IsProduct(get_json(q.body))
                    /\ Truthy(q.sku)
                    /\ q.sku = Product(q).fields["variants"].items[1].fields["sku"]
                    /\ ListingSucceeded(q)

\* A verified request went through all five steps and ended in Updated.
C16_Witness ==
    /\ IsApi
    /\ \E r \in Reqs :
         /\ Done(r) /\ req[r].outcome = "updated"
         /\ req[r].steps = StepOrder
         /\ Methods(req[r]) = {"GET", "PUT"}

(***************************************************************************)
(* C17.  get_existing_product_id_by_sku, for every listing answered 200    *)
(* and every key: it returns the id of the first record, in the order of   *)
(* the listing, that has some variant whose sku equals the key, and None   *)
(* (no exception) exactly when no listed record has such a variant.        *)
(***************************************************************************)
C17_FirstMatchWins ==
    applied.fn = "get_existing_product_id_by_sku" /\ applied.done
        => LET body == applied.args[1]
               sku == applied.args[2]
               matching == Matching(body, sku)
           IN  /\ applied.result.exc = ""
               /\ applied.result.val = JNull <=> matching = {}
               /\ matching # {}
                    => applied.result.val =
                         body.fields["products"].items[Least(matching)].fields["id"]

\* Two listed records have the key, under different ids: the id returned is
\* the first one's.
C17_Witness ==
    /\ applied.fn = "get_existing_product_id_by_sku" /\ applied.done
    /\ LET body == applied.args[1]
           products == body.fields["products"].items
           matching == Matching(body, applied.args[2])
       IN  /\ \E i \in matching : \E j \in matching :
                 products[i].fields["id"] # products[j].fields["id"]
           /\ applied.result.val = products[Least(matching)].fields["id"]

(***************************************************************************)
(* C18.  get_sku_from_product with the caller's `if not sku`, for every    *)
(* Product record: it raises nothing; it yields no key when variants is    *)
(* absent or empty or the first variant's sku is absent, null or "";       *)
(* otherwise it yields the first variant's sku, however many variants      *)
(* follow and whatever their skus.                                         *)
(***************************************************************************)
C18_FirstVariantSkuOrNone ==
    (applied.fn = "get_sku_from_product" /\ applied.done)
        => LET product == applied.args[1] IN
           /\ applied.result.exc = ""
           /\ applied.result.val =
                IF HasNoKey(product) THEN JNull
                ELSE product.fields["variants"].items[1].fields["sku"]

\* A product whose first variant has sku "A" and whose last has sku "B"
\* yields "A".
C18_Witness ==
    /\ applied.fn = "get_sku_from_product" /\ applied.done
    /\ "variants" \in DOMAIN applied.args[1].fields
    /\ LET variants == applied.args[1].fields["variants"].items IN
       /\ Len(variants) = MaxVariants
       /\ variants[1] = SkuA /\ variants[Len(variants)] = SkuB
    /\ applied.result = Return(JStr("A"))

(***************************************************************************)
(* C19.  handle_webhook of src/api/webhook.py rejects in a fixed order:    *)
(* a missing signature header is answered 400 whatever the body; a present *)
(* but wrong signature is answered 401 whatever the body, which is not     *)
(* parsed; the body is parsed only after verify_webhook accepted the       *)
(* signature; a 400 for a present signature is given only to a correct     *)
(* one.                                                                    *)
(* Fails with C14: a wrong signature with a non-ASCII character is         *)
(* answered 500.                                                           *)
(***************************************************************************)
C19_RejectionPrecedence ==
    \A r \in Reqs :
        (IsApi /\ Received(r))
            => LET q == req[r]
                   parsed == \E i \in 1..Len(q.steps) : q.steps[i] = "get_json"
               IN  /\ ~SignaturePresent(q) => q.resp.code = 400 /\ ~parsed
                   /\ (SignaturePresent(q) /\ ~SignatureValid(q))
                        => q.resp.code = 401 /\ ~parsed
                   /\ parsed => q.steps[1] = "verify_webhook" /\ SignatureValid(q)
                   /\ (q.resp.code = 400 /\ SignaturePresent(q)) => SignatureValid(q)

====
